---- MODULE Spec2Model ----
(***************************************************************************)
(* CharactorDurationMelDataset (tensorflow_tts/datasets/fastspeech_dataset) *)
(* as a sequential state machine: the constructor's steps in program order, *)
(* then either a direct run of generator(utt_ids) or create() followed by   *)
(* the iteration of the padded-batch pipeline.                              *)
(*                                                                          *)
(* Python indices are 0-based; every sequence here is 1-based, so a Python  *)
(* index idx is idx + 1 here and the slice utt_ids[:4] is SubSeq(_, 1, 4).  *)
(* A file is the record [stem, ext]: stem k is the k-th name of its family  *)
(* in sorted order (the alignment key between the three families), ext the  *)
(* part of the basename the query matched.                                  *)
(***************************************************************************)
EXTENDS Integers, Sequences, FiniteSets

\* ---------------------------------------------------------------- bounds
MaxFiles == 5
MaxThrFiles == 3
MaxLength == 2
MaxBatch == 2

\* ------------------------------------------------------ program constants
\* generator: utt_ids[:4]
SliceLimit == 4
\* create: padded_shapes=([None], [None], [None, None])
PaddedShapesArity == 3

IdsNpy == "-ids.npy"
IdsH5 == "-ids.h5"
MelExt == "-norm-feats.npy"
DurExt == "-durations.npy"

\* The queries explored for charactor_query: the default and an hdf5 one
\* (read_hdf5 is imported for that use).
Queries == {"*-ids.npy", "*-ids.h5"}

VARIABLES
    fs,               \* the root directory: files per family, mel frame counts
    args,             \* the constructor's arguments
    pc,               \* the position in the program
    error,            \* the exception raised, "none" while there is none
    charactor_files, mel_files, duration_files, mel_lengths,
    idx_sort, groups, idxs,
    warning,          \* the logging.warning call: <<before, after>>, or <<>>
    self,             \* the attributes set on the object
    batch_size, is_shuffle,   \* create's arguments
    mode,             \* "direct": generator called; "pipeline": create's stream
    i,                \* the generator's loop index
    yielded,          \* what the generator has yielded so far
    shuffle_buffer,   \* the elements held by datasets.shuffle
    pending,          \* the batch being filled
    batches           \* the batches the stream has produced

vars == <<fs, args, pc, error, charactor_files, mel_files, duration_files,
          mel_lengths, idx_sort, groups, idxs, warning, self,
          batch_size, is_shuffle, mode, i, yielded, shuffle_buffer, pending,
          batches>>

ctor_locals == <<charactor_files, mel_files, duration_files, mel_lengths,
                 idx_sort, groups, idxs, warning>>
iter_vars == <<batch_size, is_shuffle, mode, i, yielded, shuffle_buffer,
               pending, batches>>

\* ---------------------------------------------------------------- helpers
Min(a, b) == IF a < b THEN a ELSE b

Range(s) == {s[k] : k \in DOMAIN s}

\* All orderings of 1..n, as sequences.
Perms(n) == {p \in [1..n -> 1..n] : \A a, b \in 1..n : p[a] = p[b] => a = b}

\* np.array(xs)[index]: fancy indexing by a sequence of positions.
Take(xs, index) == [k \in 1..Len(index) |-> xs[index[k]]]

\* The files of one family that a query finds, unordered (find_files is
\* tensorflow_tts.utils.find_files, a recursive glob).
find_files(n, ext) == {[stem |-> k, ext |-> ext] : k \in 1..n}

\* sorted(paths): ascending by name; stem k is the k-th name.
sorted(S) == [k \in 1..Cardinality(S) |-> CHOOSE f \in S : f.stem = k]

\* The extension the charactor query matches.
CharExt(query) == IF query = "*-ids.npy" THEN IdsNpy ELSE IdsH5

\* ".npy" in charactor_query
HasNpy(query) == query = "*-ids.npy"

\* mel_load_fn(f).shape[0]
Shape0(f) == fs.shape0[f.stem]

\* A faulty variant of FilterIdxs: >= for >, a sample of length exactly the threshold kept.
FilterIdxsAtLeast(lengths, threshold) ==
    LET F[k \in 0..Len(lengths)] ==
            IF k = 0 THEN <<>>
            ELSE IF lengths[k] >= threshold THEN Append(F[k - 1], k)
            ELSE F[k - 1]
    IN  F[Len(lengths)]

\* [idx for idx in range(len(mel_files)) if mel_lengths[idx] > threshold]
FilterIdxs(lengths, threshold) ==
    LET F[k \in 0..Len(lengths)] ==
            IF k = 0 THEN <<>>
            ELSE IF lengths[k] > threshold THEN Append(F[k - 1], k)
            ELSE F[k - 1]
    IN  F[Len(lengths)]

\* A faulty variant of argsort: the sort left out, the positions as they are.
argsort_unsorted(a) == {[k \in 1..Len(a) |-> k]}

\* np.argsort(a) with its default kind, "quicksort": numpy documents that
\* kind as not stable (an introsort, or a SIMD sort where the CPU has one),
\* so the result is any ordering of the positions that puts the values in
\* ascending order; equal values come in any order. The short arrays explored
\* here stand for arrays of any size.
argsort(a) ==
    {p \in Perms(Len(a)) : \A k \in 1..(Len(a) - 1) : a[p[k]] <= a[p[k + 1]]}

\* [[idx, length] for idx, length in zip(np.arange(len(mel_lengths)), mel_lengths)]
IdxLengths(lengths) == [k \in 1..Len(lengths) |-> <<k, lengths[k]>>]

\* [list(g) for _, g in itertools.groupby(idx_lengths, lambda a: a[1])]:
\* maximal runs of consecutive entries with the same length.
RECURSIVE groupby(_)
groupby(s) ==
    IF s = <<>> THEN <<>>
    ELSE LET rest == groupby(Tail(s))
         IN  IF rest # <<>> /\ Head(rest)[1][2] = Head(s)[2]
             THEN <<(<<Head(s)>> \o Head(rest))>> \o Tail(rest)
             ELSE <<(<<Head(s)>>)>> \o rest

\* A faulty variant of GroupIdxs: each group read back to front.
RECURSIVE GroupIdxsReversed(_)
GroupIdxsReversed(gs) ==
    IF gs = <<>> THEN <<>>
    ELSE [k \in 1..Len(Head(gs)) |-> Head(gs)[Len(Head(gs)) + 1 - k][1]]
         \o GroupIdxsReversed(Tail(gs))

\* for group in groups: for idx, _ in group: idxs.append(idx)
RECURSIVE GroupIdxs(_)
GroupIdxs(gs) ==
    IF gs = <<>> THEN <<>>
    ELSE [k \in 1..Len(Head(gs)) |-> Head(gs)[k][1]] \o GroupIdxs(Tail(gs))

\* The two assertions, in program order; the exception raised or "none".
NoDataError == "AssertionError: Not found any mels files"
CountMismatchError == "AssertionError: Number of charactor, mel and duration files are different"
\* A faulty variant of AssertFilesResult: the two assertions in the other order.
AssertFilesCountFirst(n_mel, n_charactor, n_duration) ==
    IF ~(n_mel = n_charactor /\ n_charactor = n_duration) THEN CountMismatchError
    ELSE IF n_mel = 0 THEN NoDataError
    ELSE "none"
AssertFilesResult(n_mel, n_charactor, n_duration) ==
    IF n_mel = 0 THEN NoDataError
    ELSE IF ~(n_mel = n_charactor /\ n_charactor = n_duration) THEN CountMismatchError
    ELSE "none"

\* What padded_batch raises for padded_shapes of the wrong structure.
PaddedShapesError == "ValueError: padded_shapes"

\* os.path.basename(f): the directory part dropped.
basename(f) == [stem |-> f.stem, ext |-> f.ext]

\* name.replace("-ids.npy", ""): that text removed where it occurs.
ReplaceIdsNpy(name) == [name EXCEPT !.ext = IF @ = IdsNpy THEN "" ELSE @]

\* A faulty variant of UttIds: the ids taken in filename order, as if derived before
\* the lists were filtered and rearranged.
UttIdsInFilenameOrder(files) == [k \in 1..Len(files) |-> [stem |-> k, ext |-> ""]]

\* [os.path.basename(f).replace("-ids.npy", "") for f in charactor_files]
UttIds(files) == [k \in 1..Len(files) |-> ReplaceIdsNpy(basename(files[k]))]

\* get_output_dtypes()
get_output_dtypes ==
    IF self.return_utt_id
    THEN <<"string", "int32", "int32", "float32">>
    ELSE <<"int32", "int32", "float32">>

\* get_len_dataset()
get_len_dataset == Len(self.utt_ids)

\* load_fn(file): the array a loader returns for a file.
Load(fn, f) == [loader |-> fn, file |-> f]

\* One pass of the generator's loop body for 0-based index k - 1.
Items(utt_ids, k) ==
    LET mel == Load("mel_load_fn", self.mel_files[k])
        charactor == Load("charactor_load_fn", self.charactor_files[k])
        duration == Load("duration_load_fn", self.duration_files[k])
    IN  IF self.return_utt_id
        THEN <<utt_ids[k], charactor, duration, mel>>
        ELSE <<charactor, duration, mel>>

\* utt_ids[:4]
Sliced(utt_ids) == SubSeq(utt_ids, 1, Min(SliceLimit, Len(utt_ids)))

\* ------------------------------------------------------------------ Init
\* The roots explored: up to MaxFiles files per family. With a threshold
\* there are at most MaxThrFiles mel files, each of 1..MaxLength frames, and
\* the other two families hold one file fewer, as many, or one more. Without
\* a threshold no mel file is loaded by the constructor, so the frame counts
\* are fixed at 1.
FamilyCounts(n_mel, given) ==
    IF given THEN {m \in 0..MaxFiles : m - n_mel \in {-1, 0, 1}} ELSE 0..MaxFiles

Init ==
    /\ \E n_mel \in 0..MaxFiles, given \in BOOLEAN :
         \E n_charactor \in FamilyCounts(n_mel, given),
            n_duration \in FamilyCounts(n_mel, given),
            threshold \in 0..MaxLength, shape0 \in [1..n_mel -> 1..MaxLength],
            query \in Queries, return_utt_id \in BOOLEAN :
           /\ given => n_mel <= MaxThrFiles
           /\ ~given => /\ threshold = 0
                        /\ \A k \in 1..n_mel : shape0[k] = 1
           /\ fs = [n_charactor |-> n_charactor, n_mel |-> n_mel,
                    n_duration |-> n_duration, shape0 |-> shape0]
           /\ args = [charactor_query |-> query,
                      threshold_given |-> given,
                      mel_length_threshold |-> threshold,
                      return_utt_id |-> return_utt_id]
    /\ pc = "find_files"
    /\ error = "none"
    /\ charactor_files = <<>> /\ mel_files = <<>> /\ duration_files = <<>>
    /\ mel_lengths = <<>> /\ idx_sort = <<>> /\ groups = <<>> /\ idxs = <<>>
    /\ warning = <<>>
    /\ self = [utt_ids |-> <<>>, mel_files |-> <<>>, charactor_files |-> <<>>,
               duration_files |-> <<>>, return_utt_id |-> FALSE]
    /\ batch_size = 0 /\ is_shuffle = FALSE /\ mode = "none" /\ i = 0
    /\ yielded = <<>> /\ shuffle_buffer = <<>> /\ pending = <<>> /\ batches = <<>>

\* ------------------------------------------------------------ __init__
\* lines 51-53
FindFiles ==
    /\ pc = "find_files"
    /\ charactor_files' = sorted(find_files(fs.n_charactor, CharExt(args.charactor_query)))
    /\ mel_files' = sorted(find_files(fs.n_mel, MelExt))
    /\ duration_files' = sorted(find_files(fs.n_duration, DurExt))
    /\ pc' = IF args.threshold_given THEN "filter" ELSE "assert"
    /\ UNCHANGED <<fs, args, error, mel_lengths, idx_sort, groups, idxs,
                   warning, self, iter_vars>>

\* lines 55-65; charactor_files[idx] and duration_files[idx] raise IndexError
\* for an idx past the end of the list.
FilterByThreshold ==
    /\ pc = "filter"
    /\ LET lengths == [k \in 1..Len(mel_files) |-> Shape0(mel_files[k])]
           kept == FilterIdxs(lengths, args.mel_length_threshold)
           char_ok == \A k \in Range(kept) : k <= Len(charactor_files)
           dur_ok == \A k \in Range(kept) : k <= Len(duration_files)
       IN  /\ idxs' = kept
           /\ warning' = IF Len(mel_files) # Len(kept)
                         THEN <<Len(mel_files), Len(kept)>> ELSE <<>>
           /\ mel_files' = Take(mel_files, kept)
           /\ charactor_files' = IF char_ok THEN Take(charactor_files, kept)
                                 ELSE charactor_files
           /\ duration_files' = IF char_ok /\ dur_ok THEN Take(duration_files, kept)
                                ELSE duration_files
           /\ mel_lengths' = IF char_ok /\ dur_ok THEN Take(lengths, kept) ELSE lengths
           /\ error' = IF char_ok /\ dur_ok THEN "none" ELSE "IndexError"
           /\ pc' = IF char_ok /\ dur_ok THEN "sort" ELSE "failed"
    /\ UNCHANGED <<fs, args, idx_sort, groups, self, iter_vars>>

\* lines 68-74
SortByLength ==
    /\ pc = "sort"
    /\ \E p \in argsort(mel_lengths) :
         /\ idx_sort' = p
         /\ mel_files' = Take(mel_files, p)
         /\ charactor_files' = Take(charactor_files, p)
         /\ duration_files' = Take(duration_files, p)
         /\ mel_lengths' = Take(mel_lengths, p)
    /\ pc' = "group"
    /\ UNCHANGED <<fs, args, error, groups, idxs, warning, self, iter_vars>>

\* lines 77-78
Group ==
    /\ pc = "group"
    /\ groups' = groupby(IdxLengths(mel_lengths))
    /\ pc' = "shuffle"
    /\ UNCHANGED <<fs, args, error, charactor_files, mel_files, duration_files,
                   mel_lengths, idx_sort, idxs, warning, self, iter_vars>>

\* line 81: random.shuffle(groups), any ordering of the groups.
GroupShuffle ==
    /\ pc = "shuffle"
    /\ \E p \in Perms(Len(groups)) : groups' = Take(groups, p)
    /\ pc' = "rearrange"
    /\ UNCHANGED <<fs, args, error, charactor_files, mel_files, duration_files,
                   mel_lengths, idx_sort, idxs, warning, self, iter_vars>>

\* lines 84-93
Rearrange ==
    /\ pc = "rearrange"
    /\ LET new == GroupIdxs(groups)
       IN  /\ idxs' = new
           /\ mel_files' = Take(mel_files, new)
           /\ charactor_files' = Take(charactor_files, new)
           /\ duration_files' = Take(duration_files, new)
           /\ mel_lengths' = Take(mel_lengths, new)
    /\ pc' = "assert"
    /\ UNCHANGED <<fs, args, error, idx_sort, groups, warning, self, iter_vars>>

\* lines 96-99
AssertFiles ==
    /\ pc = "assert"
    /\ error' = AssertFilesResult(Len(mel_files), Len(charactor_files), Len(duration_files))
    /\ pc' = IF error' = "none" THEN "utt_ids" ELSE "failed"
    /\ UNCHANGED <<fs, args, ctor_locals, self, iter_vars>>

\* lines 101-112: utt_ids is bound only under the if, so line 105 raises
\* UnboundLocalError for a query without ".npy".
SetAttributes ==
    /\ pc = "utt_ids"
    /\ IF HasNpy(args.charactor_query)
       THEN /\ self' = [utt_ids |-> UttIds(charactor_files),
                        mel_files |-> mel_files,
                        charactor_files |-> charactor_files,
                        duration_files |-> duration_files,
                        return_utt_id |-> args.return_utt_id]
            /\ pc' = "ready"
            /\ error' = "none"
       ELSE /\ self' = self
            /\ pc' = "failed"
            /\ error' = "UnboundLocalError"
    /\ UNCHANGED <<fs, args, ctor_locals, iter_vars>>

\* ------------------------------------------------- generator and create
\* generator(self.utt_ids) called directly: its first entry.
CallGenerator ==
    /\ pc = "ready"
    /\ mode' = "direct"
    /\ pc' = "iterate"
    /\ UNCHANGED <<fs, args, error, ctor_locals, self, batch_size, is_shuffle, i,
                   yielded, shuffle_buffer, pending, batches>>

\* lines 139-155 (allow_cache and prefetch leave the elements and their
\* order as they are). padded_batch raises when the padded_shapes structure
\* and the element structure differ.
Create ==
    /\ pc = "ready"
    /\ \E b \in 1..MaxBatch, s \in BOOLEAN : batch_size' = b /\ is_shuffle' = s
    /\ IF Len(get_output_dtypes) = PaddedShapesArity
       THEN /\ mode' = "pipeline"
            /\ pc' = "iterate"
            /\ error' = "none"
       ELSE /\ mode' = mode
            /\ pc' = "failed"
            /\ error' = PaddedShapesError
    /\ UNCHANGED <<fs, args, ctor_locals, self, i, yielded, shuffle_buffer,
                   pending, batches>>

\* The stage after the generator asks it for an element: the shuffle stage
\* until its buffer (of get_len_dataset() elements) is full, the batch stage
\* while the batch being filled is short of batch_size.
Demand ==
    \/ mode = "direct"
    \/ mode = "pipeline" /\ is_shuffle /\ Len(shuffle_buffer) < get_len_dataset
    \/ mode = "pipeline" /\ ~is_shuffle /\ Len(pending) < batch_size

\* lines 118-129: one turn of the loop, up to the yield.
GeneratorNext ==
    /\ pc = "iterate"
    /\ i < Len(Sliced(self.utt_ids))
    /\ Demand
    /\ i' = i + 1
    /\ LET items == Items(Sliced(self.utt_ids), i + 1)
       IN  /\ yielded' = Append(yielded, items)
           /\ shuffle_buffer' = IF mode = "pipeline" /\ is_shuffle
                                THEN Append(shuffle_buffer, items)
                                ELSE shuffle_buffer
           /\ pending' = IF mode = "pipeline" /\ ~is_shuffle
                         THEN Append(pending, items)
                         ELSE pending
    /\ UNCHANGED <<fs, args, pc, error, ctor_locals, self, batch_size, is_shuffle,
                   mode, batches>>

\* line 118: the loop ends, the generator returns.
GeneratorReturn ==
    /\ pc = "iterate"
    /\ i = Len(Sliced(self.utt_ids))
    /\ Demand
    /\ pc' = "exhausted"
    /\ UNCHANGED <<fs, args, error, ctor_locals, self, iter_vars>>

\* lines 150-151: once its buffer is full or its input has ended, the shuffle
\* stage hands a uniformly chosen element of the buffer to the batch stage.
Shuffle ==
    /\ mode = "pipeline" /\ is_shuffle
    /\ pc = "exhausted" \/ Len(shuffle_buffer) = get_len_dataset
    /\ Len(pending) < batch_size
    /\ \E k \in 1..Len(shuffle_buffer) :
         /\ pending' = Append(pending, shuffle_buffer[k])
         /\ shuffle_buffer' = SubSeq(shuffle_buffer, 1, k - 1)
                              \o SubSeq(shuffle_buffer, k + 1, Len(shuffle_buffer))
    /\ UNCHANGED <<fs, args, pc, error, ctor_locals, self, batch_size, is_shuffle,
                   mode, i, yielded, batches>>

\* line 153: a batch is emitted when it holds batch_size elements, or when
\* the input ended with a partial batch (drop_remainder is not set).
PaddedBatch ==
    /\ mode = "pipeline"
    /\ \/ Len(pending) = batch_size
       \/ pc = "exhausted" /\ shuffle_buffer = <<>> /\ pending # <<>>
    /\ batches' = Append(batches, pending)
    /\ pending' = <<>>
    /\ UNCHANGED <<fs, args, pc, error, ctor_locals, self, batch_size, is_shuffle,
                   mode, i, yielded, shuffle_buffer>>

Next ==
    \/ FindFiles
    \/ FilterByThreshold
    \/ SortByLength
    \/ Group
    \/ GroupShuffle
    \/ Rearrange
    \/ AssertFiles
    \/ SetAttributes
    \/ CallGenerator
    \/ Create
    \/ GeneratorNext
    \/ GeneratorReturn
    \/ Shuffle
    \/ PaddedBatch

Spec == Init /\ [][Next]_vars

\* ------------------------------------------------------ derived notions
\* __init__ has returned: the object exists.
Constructed == pc \in {"ready", "iterate", "exhausted"} \/ error = PaddedShapesError
\* __init__ has raised.
ConstructionFailed == pc = "failed" /\ error # PaddedShapesError
\* The threshold branch (lines 55-93) has run to its end.
Rearranged ==
    /\ args.threshold_given
    /\ pc \notin {"find_files", "filter", "sort", "group", "shuffle", "rearrange"}
    /\ error # "IndexError"
\* The filter of lines 58-65 has run.
Filtered == args.threshold_given /\ pc \notin {"find_files", "filter"}
GeneratorDone == pc = "exhausted"
PipelineDone ==
    pc = "exhausted" /\ mode = "pipeline" /\ shuffle_buffer = <<>> /\ pending = <<>>
EqualCounts == fs.n_charactor = fs.n_mel /\ fs.n_mel = fs.n_duration
Stems(files) == {files[k].stem : k \in DOMAIN files}
\* The samples whose mel frame count exceeds the threshold.
LongEnough == {k \in 1..fs.n_mel : fs.shape0[k] > args.mel_length_threshold}
\* The tuple the generator is to yield for position k of the index.
ExpectedItems(k) ==
    LET charactor == [loader |-> "charactor_load_fn", file |-> self.charactor_files[k]]
        duration == [loader |-> "duration_load_fn", file |-> self.duration_files[k]]
        mel == [loader |-> "mel_load_fn", file |-> self.mel_files[k]]
    IN  IF self.return_utt_id
        THEN <<self.utt_ids[k], charactor, duration, mel>>
        ELSE <<charactor, duration, mel>>

\* ----------------------------------------------------------------- claims

\* C1: one run of generator(utt_ids) over the dataset's own utt_ids yields
\* exactly N tuples, the k-th built from charactor_files[k], duration_files[k]
\* and mel_files[k], with the utterance id in front when return_utt_id is
\* set. The code stops after utt_ids[:4].
C1_GeneratorYieldsEverySample ==
    (mode = "direct" /\ GeneratorDone) =>
        /\ Len(yielded) = get_len_dataset
        /\ \A k \in 1..Len(yielded) : yielded[k] = ExpectedItems(k)

\* C2: no dataset object is ever produced from a root directory whose three
\* file-family counts differ, whatever mel_length_threshold is.
C2_MismatchNeverConstructs == ~EqualCounts => ~Constructed

\* C3: with a threshold and equal counts, the final index is one permutation
\* of the retained samples applied to all three lists (each position holds
\* the three files of one sample, none lost or duplicated), and all samples
\* of one mel length form a single contiguous run.
C3_PermutationInLengthRuns ==
    (Rearranged /\ EqualCounts) =>
        /\ Len(mel_files) = Len(charactor_files)
        /\ Len(mel_files) = Len(duration_files)
        /\ \A k \in 1..Len(mel_files) :
             /\ mel_files[k].stem = charactor_files[k].stem
             /\ mel_files[k].stem = duration_files[k].stem
             /\ mel_lengths[k] = fs.shape0[mel_files[k].stem]
        /\ Stems(mel_files) = LongEnough
        /\ Len(mel_files) = Cardinality(LongEnough)
        /\ \A a, b, c \in 1..Len(mel_files) :
             (a < b /\ b < c /\ mel_lengths[a] = mel_lengths[c])
                 => mel_lengths[b] = mel_lengths[a]
        /\ Constructed => /\ self.mel_files = mel_files
                          /\ self.charactor_files = charactor_files
                          /\ self.duration_files = duration_files

\* C3, witness: a constructed dataset of at least three samples in runs of
\* two lengths, the longer run first.
C3_Witness ==
    /\ Constructed /\ args.threshold_given /\ EqualCounts
    /\ Len(mel_files) >= 3
    /\ mel_lengths[1] > mel_lengths[Len(mel_files)]

\* C4 as stated: two retained samples of the same mel length are in the
\* final index in their original sorted-filename order.
C4_OriginalOrderInGroup ==
    (Rearranged /\ EqualCounts) =>
        \A a, b \in 1..Len(mel_files) :
            (a < b /\ mel_lengths[a] = mel_lengths[b])
                => mel_files[a].stem < mel_files[b].stem

\* The mel files as np.argsort left them (lines 68-71): the retained files,
\* in filename order, indexed by idx_sort.
AfterSort ==
    LET found == sorted(find_files(fs.n_mel, MelExt))
        lengths == [k \in 1..Len(found) |-> fs.shape0[found[k].stem]]
        kept == FilterIdxs(lengths, args.mel_length_threshold)
    IN  Take(Take(found, kept), idx_sort)
PositionIn(files, f) == CHOOSE k \in 1..Len(files) : files[k] = f

\* C4, amended: two retained samples of the same mel length are in the final
\* index in the order np.argsort put them in; the group shuffle keeps the
\* order inside a group, the sort need not keep the filename order.
C4_SortOrderInGroup ==
    (Rearranged /\ EqualCounts) =>
        \A a, b \in 1..Len(mel_files) :
            (a < b /\ mel_lengths[a] = mel_lengths[b])
                => PositionIn(AfterSort, mel_files[a]) < PositionIn(AfterSort, mel_files[b])

\* C4, witness: a constructed dataset in which two samples of one mel length
\* stand against their filename order.
C4_Witness ==
    /\ Constructed /\ args.threshold_given /\ EqualCounts
    /\ \E a, b \in 1..Len(mel_files) :
         /\ a < b /\ mel_lengths[a] = mel_lengths[b]
         /\ mel_files[a].stem > mel_files[b].stem

\* C5: with threshold T and equal counts the retained samples are exactly
\* those with mel length > T, and the warning, carrying the counts before and
\* after, is logged if and only if a sample was dropped.
C5_RetainedExactlyAboveThreshold ==
    (Filtered /\ EqualCounts) =>
        /\ Stems(mel_files) = LongEnough
        /\ Stems(charactor_files) = LongEnough
        /\ Stems(duration_files) = LongEnough
        /\ \A k \in 1..Len(mel_files) : fs.shape0[mel_files[k].stem] > args.mel_length_threshold
        /\ (warning # <<>>) <=> (LongEnough # 1..fs.n_mel)
        /\ warning # <<>> => warning = <<fs.n_mel, Cardinality(LongEnough)>>

\* C5, witness: a constructed dataset for which a sample of length exactly T
\* was dropped and the warning logged.
C5_Witness ==
    /\ Constructed /\ args.threshold_given /\ EqualCounts
    /\ \E k \in 1..fs.n_mel : fs.shape0[k] = args.mel_length_threshold
    /\ warning = <<fs.n_mel, Len(self.mel_files)>>

\* C6: for N >= 1 matching triples and no threshold, construction completes
\* with get_len_dataset() = N = the length of each file list, for every
\* charactor_query.
C6_ConstructsWithLenN ==
    (~args.threshold_given /\ EqualCounts /\ fs.n_mel >= 1) =>
        /\ ~ConstructionFailed
        /\ Constructed =>
             /\ get_len_dataset = fs.n_mel
             /\ Len(self.mel_files) = fs.n_mel
             /\ Len(self.charactor_files) = fs.n_mel
             /\ Len(self.duration_files) = fs.n_mel

\* ceil(n / b)
CeilDiv(n, b) == (n + b - 1) \div b
RECURSIVE Concat(_)
Concat(ss) == IF ss = <<>> THEN <<>> ELSE Head(ss) \o Concat(Tail(ss))

\* C7: without threshold, create(batch_size=B, is_shuffle=False) yields
\* ceil(N/B) batches, all of size B but a last one of N mod B, whose
\* concatenation is the N samples in sorted-filename order.
C7_BatchesCoverDataset ==
    (PipelineDone /\ ~is_shuffle /\ ~args.threshold_given) =>
        /\ Len(batches) = CeilDiv(fs.n_mel, batch_size)
        /\ \A k \in 1..Len(batches) :
             Len(batches[k]) = IF k < Len(batches) \/ fs.n_mel % batch_size = 0
                               THEN batch_size ELSE fs.n_mel % batch_size
        /\ Concat(batches) = [k \in 1..fs.n_mel |-> ExpectedItems(k)]

\* C8: for both values of return_utt_id, create() returns a stream, and the
\* padded shapes have as many components as the elements of the stream.
C8_CreateReturnsStream ==
    (mode = "pipeline" \/ error = PaddedShapesError) =>
        /\ error = "none"
        /\ PaddedShapesArity = Len(get_output_dtypes)

\* C9: with return_utt_id=True every tuple the generator yields starts with
\* the utterance id of its own character-id file (the basename without
\* "-ids.npy"), and its three arrays are loaded from the files of that sample.
C9_IdBelongsToTuple ==
    self.return_utt_id =>
        \A k \in 1..Len(yielded) :
            LET t == yielded[k]
            IN  /\ Len(t) = 4
                /\ t[2].file.ext = IdsNpy
                /\ t[1] = [stem |-> t[2].file.stem, ext |-> ""]
                /\ t[2].loader = "charactor_load_fn"
                /\ t[3] = [loader |-> "duration_load_fn",
                           file |-> [stem |-> t[2].file.stem, ext |-> DurExt]]
                /\ t[4] = [loader |-> "mel_load_fn",
                           file |-> [stem |-> t[2].file.stem, ext |-> MelExt]]

\* C9, witness: ids are returned, the threshold dropped a sample, and the
\* generator has yielded two tuples that stand against filename order.
C9_Witness ==
    /\ self.return_utt_id /\ args.threshold_given
    /\ warning # <<>>
    /\ Len(yielded) >= 2
    /\ yielded[1][2].file.stem > yielded[2][2].file.stem

\* C10: when no mel file is found, or the threshold drops every mel file,
\* construction ends in the no-data error, whatever the threshold and the
\* numbers of character-id and duration files.
C10_NoMelIsNoData ==
    (fs.n_mel = 0 \/ (args.threshold_given /\ LongEnough = {})) =>
        /\ pc \in {"find_files", "filter", "sort", "group", "shuffle", "rearrange",
                   "assert", "failed"}
        /\ pc = "failed" => error = NoDataError

\* C10, witness: construction has failed with the no-data error for a root
\* that holds character-id files but no mel file, with a threshold given.
C10_Witness ==
    /\ pc = "failed" /\ error = NoDataError
    /\ fs.n_mel = 0 /\ fs.n_charactor > 0
    /\ args.threshold_given
====
